---- MODULE Spec2Model ----
(***************************************************************************)
(* Model of the BMI calculator widget (components/bmi-calculator.tsx).     *)
(*                                                                         *)
(* Texts are sequences of one-character strings.  Numbers are IEEE 754     *)
(* binary64 values, computed bit for bit with the rounding of each         *)
(* operation: the mantissa is a natural number of 53 bits, kept as a       *)
(* sequence of 14-bit limbs.                                               *)
(***************************************************************************)
EXTENDS Integers, Sequences, FiniteSets, TLC

VARIABLES height, weight, bmi, category, errors, animateResult, submitted,
          timer, event, probe

vars == <<height, weight, bmi, category, errors, animateResult, submitted,
          timer, event, probe>>

widgetVars == <<height, weight, bmi, category, errors, animateResult,
                submitted, timer, event>>

(***************************************************************************)
(* Bounds                                                                  *)
(***************************************************************************)
\* longest text handed to the validator on its own
MaxLen == 3

(***************************************************************************)
(* JavaScript values                                                       *)
(***************************************************************************)
Fields == {"height", "weight"}

\* the absent value of an optional error message
Undefined == "undefined"

(***************************************************************************)
(* Natural numbers of any size: sequences of limbs, least significant      *)
(* first, without leading zero limbs; <<>> is 0                            *)
(***************************************************************************)
LimbBits == 14

LimbBase == 16384

RECURSIVE Pow2(_)
Pow2(k) == IF k = 0 THEN 1 ELSE 2 * Pow2(k - 1)

RECURSIVE IntBitLen(_)
IntBitLen(n) == IF n = 0 THEN 0 ELSE 1 + IntBitLen(n \div 2)

RECURSIVE BigFromInt(_)
BigFromInt(n) ==
    IF n = 0 THEN <<>> ELSE <<n % LimbBase>> \o BigFromInt(n \div LimbBase)

RECURSIVE BigToInt(_)
BigToInt(a) == IF a = <<>> THEN 0 ELSE a[1] + LimbBase * BigToInt(Tail(a))

RECURSIVE BigNorm(_)
BigNorm(a) ==
    IF a # <<>> /\ a[Len(a)] = 0 THEN BigNorm(SubSeq(a, 1, Len(a) - 1)) ELSE a

BigBitLen(a) ==
    IF a = <<>> THEN 0 ELSE LimbBits * (Len(a) - 1) + IntBitLen(a[Len(a)])

RECURSIVE BigCmpFrom(_, _, _)
BigCmpFrom(a, b, i) ==
    IF i = 0 THEN 0
    ELSE IF a[i] < b[i] THEN 0 - 1
    ELSE IF a[i] > b[i] THEN 1
    ELSE BigCmpFrom(a, b, i - 1)

\* -1, 0 or 1 as a < b, a = b or a > b
BigCmp(a, b) ==
    IF Len(a) < Len(b) THEN 0 - 1
    ELSE IF Len(a) > Len(b) THEN 1
    ELSE BigCmpFrom(a, b, Len(a))

RECURSIVE BigAddC(_, _, _)
BigAddC(a, b, c) ==
    IF a = <<>> /\ b = <<>> THEN BigFromInt(c)
    ELSE LET x == (IF a = <<>> THEN 0 ELSE a[1]) + (IF b = <<>> THEN 0 ELSE b[1]) + c
         IN  <<x % LimbBase>> \o BigAddC(IF a = <<>> THEN a ELSE Tail(a),
                                         IF b = <<>> THEN b ELSE Tail(b),
                                         x \div LimbBase)

BigAdd(a, b) == BigNorm(BigAddC(a, b, 0))

RECURSIVE BigSubB(_, _, _)
BigSubB(a, b, c) ==
    IF a = <<>> THEN <<>>
    ELSE LET x == a[1] - (IF b = <<>> THEN 0 ELSE b[1]) - c
         IN  <<x % LimbBase>> \o BigSubB(Tail(a), IF b = <<>> THEN b ELSE Tail(b),
                                         IF x < 0 THEN 1 ELSE 0)

\* a - b for a >= b
BigSub(a, b) == BigNorm(BigSubB(a, b, 0))

RECURSIVE BigMulSmallC(_, _, _)
BigMulSmallC(a, k, c) ==
    IF a = <<>> THEN BigFromInt(c)
    ELSE LET x == a[1] * k + c
         IN  <<x % LimbBase>> \o BigMulSmallC(Tail(a), k, x \div LimbBase)

\* a * k for 0 <= k < 2^17
BigMulSmall(a, k) == BigNorm(BigMulSmallC(a, k, 0))

RECURSIVE BigMul(_, _)
BigMul(a, b) ==
    IF a = <<>> \/ b = <<>> THEN <<>>
    ELSE BigAdd(BigMulSmall(a, b[1]), BigNorm(<<0>> \o BigMul(a, Tail(b))))

\* quotient q and remainder r of (c * LimbBase^i + a[1..i]) by k, 0 < k < 2^17, c < k
RECURSIVE BigDivSmallFrom(_, _, _, _)
BigDivSmallFrom(a, k, i, c) ==
    IF i = 0 THEN [q |-> <<>>, r |-> c]
    ELSE LET x  == c * LimbBase + a[i]
             lo == BigDivSmallFrom(a, k, i - 1, x % k)
         IN  [q |-> Append(lo.q, x \div k), r |-> lo.r]

BigDivSmall(a, k) ==
    LET d == BigDivSmallFrom(a, k, Len(a), 0)
    IN  [q |-> BigNorm(d.q), r |-> d.r]

Zeros(n) == [i \in 1..n |-> 0]

\* a * 2^k
BigShl(a, k) ==
    IF a = <<>> THEN a
    ELSE Zeros(k \div LimbBits) \o BigMulSmall(a, Pow2(k % LimbBits))

\* floor(a / 2^k)
BigShr(a, k) ==
    IF Len(a) <= k \div LimbBits THEN <<>>
    ELSE BigDivSmall(SubSeq(a, (k \div LimbBits) + 1, Len(a)), Pow2(k % LimbBits)).q

\* the largest q <= guess with q * d <= r
RECURSIVE BigDigit(_, _, _)
BigDigit(r, d, guess) ==
    IF BigCmp(BigMulSmall(d, guess), r) > 0 THEN BigDigit(r, d, guess - 1) ELSE guess

Limb(a, i) == IF i >= 1 /\ i <= Len(a) THEN a[i] ELSE 0

\* long division of (c * LimbBase^i + n[1..i]) by d, whose top limb is at
\* least LimbBase / 2, with c < d: x is the running remainder with the next
\* limb brought down, qd the next limb of the quotient, found from a guess
\* by the top limbs, and lo the division of what is left
RECURSIVE BigDivFrom(_, _, _, _)
RECURSIVE BigDivStep(_, _, _, _)
RECURSIVE BigDivNext(_, _, _, _, _)

BigDivPut(lo, qd) == [q |-> Append(lo.q, qd), r |-> lo.r]

BigDivNext(n, d, i, x, qd) ==
    BigDivPut(BigDivFrom(n, d, i - 1, BigSub(x, BigMulSmall(d, qd))), qd)

BigDivGuess(est) == IF est >= LimbBase THEN LimbBase - 1 ELSE est

BigDivStep(n, d, i, x) ==
    BigDivNext(n, d, i, x,
               BigDigit(x, d, BigDivGuess((Limb(x, Len(d) + 1) * LimbBase
                                           + Limb(x, Len(d))) \div d[Len(d)])))

BigDivFrom(n, d, i, c) ==
    IF i = 0 THEN [q |-> <<>>, r |-> c]
    ELSE BigDivStep(n, d, i, BigNorm(<<n[i]>> \o c))

BigDivOne(y) == [q |-> y.q, r |-> BigFromInt(y.r)]

BigDivOut(x, t) == [q |-> BigNorm(x.q), r |-> BigShr(x.r, t)]

\* nn and dd are the dividend and the divisor times 2^t; the division starts
\* below the top Len(dd) - 1 limbs of the dividend
BigDivLong(nn, dd, t) ==
    IF Len(nn) < Len(dd) THEN [q |-> <<>>, r |-> BigShr(nn, t)]
    ELSE BigDivOut(BigDivFrom(nn, dd, Len(nn) - Len(dd) + 1,
                              SubSeq(nn, Len(nn) - Len(dd) + 2, Len(nn))), t)

BigDivShift(n, d, t) == BigDivLong(BigShl(n, t), BigShl(d, t), t)

\* quotient q and remainder r of n by d, d > 0: by a single limb directly,
\* otherwise by long division of n * 2^t by d * 2^t, where t makes the top
\* limb of the divisor at least LimbBase / 2
BigDivMod(n, d) ==
    IF Len(d) = 1 THEN BigDivOne(BigDivSmall(n, d[1]))
    ELSE BigDivShift(n, d, LimbBits * Len(d) - BigBitLen(d))

\* a mod 2^k
BigLow(a, k) ==
    BigNorm(SubSeq(a, 1, k \div LimbBits)
            \o (IF Len(a) > k \div LimbBits
                THEN <<a[(k \div LimbBits) + 1] % Pow2(k % LimbBits)>>
                ELSE <<>>))

(***************************************************************************)
(* JavaScript numbers: IEEE 754 binary64.  A finite number is              *)
(* sign * mant * 2^exp with mant = 0, written <<>>, or                     *)
(* 2^52 <= mant < 2^53.  Subnormal numbers and overflow to Infinity are    *)
(* not modelled; the values of this program stay far from both.            *)
(***************************************************************************)
MantBits == 53

\* bmi === null
Null == [kind |-> "null", sign |-> 1, mant |-> <<>>, exp |-> 0]

NaN == [kind |-> "NaN", sign |-> 1, mant |-> <<>>, exp |-> 0]

Infinity(sign) == [kind |-> "Infinity", sign |-> sign, mant |-> <<>>, exp |-> 0]

Zero(sign) == [kind |-> "finite", sign |-> sign, mant |-> <<>>, exp |-> 0]

Abs(n) == IF n < 0 THEN 0 - n ELSE n

Sign(n) == IF n < 0 THEN 0 - 1 ELSE 1

\* the finite number sign * m1 * 2^e for 2^52 <= m1 <= 2^53
RoundPack(sign, m1, e) ==
    IF BigBitLen(m1) > MantBits
    THEN [kind |-> "finite", sign |-> sign, mant |-> BigShr(m1, 1), exp |-> e + 1]
    ELSE [kind |-> "finite", sign |-> sign, mant |-> m1, exp |-> e]

\* m0 rounded up or not: c compares the dropped part with a half
RoundTie(sign, m0, c, sticky, e) ==
    RoundPack(sign,
              IF c > 0 \/ (c = 0 /\ (sticky \/ m0[1] % 2 = 1))
              THEN BigAdd(m0, <<1>>) ELSE m0,
              e)

RoundDrop(sign, q, sticky, e, drop) ==
    RoundTie(sign, BigShr(q, drop),
             BigCmp(BigLow(q, drop), BigShl(<<1>>, drop - 1)), sticky, e + drop)

\* the binary64 number nearest to sign * (q + f) * 2^e, ties to the even
\* mantissa, where q has more than MantBits bits, 0 <= f < 1, and sticky
\* tells that f is not 0
RoundQ(sign, q, sticky, e) ==
    RoundDrop(sign, q, sticky, e, BigBitLen(q) - MantBits)

RoundQuot(sign, x, e) == RoundQ(sign, x.q, x.r # <<>>, e)

RoundShift(sign, n, d, e, s) ==
    RoundQuot(sign,
              BigDivMod(BigShl(n, IF s >= 0 THEN s ELSE 0),
                        BigShl(d, IF s >= 0 THEN 0 ELSE 0 - s)),
              e - s)

\* the binary64 number nearest to sign * (n / d) * 2^e, for natural numbers
\* n > 0 and d > 0 of any size: the quotient is taken with MantBits + 2 bits
\* or one more
RoundDiv(sign, n, d, e) ==
    RoundShift(sign, n, d, e, MantBits + 2 + BigBitLen(d) - BigBitLen(n))

\* the binary64 number nearest to sign * n * 2^e, for a natural number n of
\* more than MantBits bits
RoundBig(sign, n, e) == RoundQ(sign, n, FALSE, e)

\* the number nearest to n / d, for integers n and d > 0: the value of a
\* decimal literal
Finite(n, d) ==
    IF n = 0 THEN Zero(1)
    ELSE IF d = 1
    THEN [kind |-> "finite", sign |-> Sign(n),
          mant |-> BigShl(BigFromInt(Abs(n)), MantBits - IntBitLen(Abs(n))),
          exp  |-> IntBitLen(Abs(n)) - MantBits]
    ELSE RoundDiv(Sign(n), BigFromInt(Abs(n)), BigFromInt(d), 0)

RECURSIVE Pow10(_)
Pow10(k) == IF k = 0 THEN 1 ELSE 10 * Pow10(k - 1)

isNaN(x) == x.kind = "NaN"

isFinite(x) == x.kind = "finite"

\* -1, 0 or 1 as the finite x is below, equal to or above n / d, for
\* integers n and 0 < d < 2^17; the magnitudes are compared by their bit
\* lengths first, 2^(bx-1) <= |x| < 2^bx and 2^(bq-1) < |n| / d < 2^(bq+1)
CmpRat(x, n, d) ==
    LET sx == IF x.mant = <<>> THEN 0 ELSE x.sign
        sn == IF n = 0 THEN 0 ELSE Sign(n)
        bx == BigBitLen(x.mant) + x.exp
        bq == IntBitLen(Abs(n)) - IntBitLen(d)
        l  == IF x.exp >= 0 THEN BigShl(BigMulSmall(x.mant, d), x.exp)
              ELSE BigMulSmall(x.mant, d)
        r  == IF x.exp >= 0 THEN BigFromInt(Abs(n))
              ELSE BigShl(BigFromInt(Abs(n)), 0 - x.exp)
    IN  IF sx # sn THEN (IF sx < sn THEN 0 - 1 ELSE 1)
        ELSE IF sx = 0 THEN 0
        ELSE IF bx - 1 >= bq + 1 THEN sx
        ELSE IF bx <= bq - 1 THEN 0 - sx
        ELSE sx * BigCmp(l, r)

\* x < n, x > n, x <= n for an integer literal n; every comparison with NaN is false
Less(x, n) ==
    CASE x.kind = "finite"   -> CmpRat(x, n, 1) < 0
      [] x.kind = "Infinity" -> x.sign < 0
      [] OTHER               -> FALSE

Greater(x, n) ==
    CASE x.kind = "finite"   -> CmpRat(x, n, 1) > 0
      [] x.kind = "Infinity" -> x.sign > 0
      [] OTHER               -> FALSE

LessEq(x, n) ==
    CASE x.kind = "finite"   -> CmpRat(x, n, 1) <= 0
      [] x.kind = "Infinity" -> x.sign < 0
      [] OTHER               -> FALSE

\* x < n/d for the decimal literal n/d, which is a binary64 number
LessRat(x, n, d) ==
    CASE x.kind = "finite"   -> CmpRat(x, n, d) < 0
      [] x.kind = "Infinity" -> x.sign < 0
      [] OTHER               -> FALSE

\* x / n for a positive integer literal n
DivInt(x, n) ==
    IF x.kind # "finite" \/ x.mant = <<>> THEN x
    ELSE RoundDiv(x.sign, x.mant, BigFromInt(n), x.exp)

\* x * y
Mul(x, y) ==
    CASE isNaN(x) \/ isNaN(y) -> NaN
      [] isFinite(x) /\ isFinite(y) ->
            IF x.mant = <<>> \/ y.mant = <<>> THEN Zero(x.sign * y.sign)
            ELSE RoundBig(x.sign * y.sign, BigMul(x.mant, y.mant),
                          x.exp + y.exp)
      [] (isFinite(x) /\ x.mant = <<>>) \/ (isFinite(y) /\ y.mant = <<>>) -> NaN
      [] OTHER -> Infinity(x.sign * y.sign)

\* x / y
Div(x, y) ==
    CASE isNaN(x) \/ isNaN(y) -> NaN
      [] isFinite(x) /\ isFinite(y) ->
            IF y.mant = <<>>
            THEN IF x.mant = <<>> THEN NaN ELSE Infinity(x.sign * y.sign)
            ELSE IF x.mant = <<>> THEN Zero(x.sign * y.sign)
            ELSE RoundDiv(x.sign * y.sign, x.mant, y.mant, x.exp - y.exp)
      [] isFinite(y) -> Infinity(x.sign * y.sign)
      [] isFinite(x) -> Zero(x.sign * y.sign)
      [] OTHER -> NaN

\* -1, 0 or 1 as x is below, equal to or above y, for finite x and y
CmpNum(x, y) ==
    LET sx == IF x.mant = <<>> THEN 0 ELSE x.sign
        sy == IF y.mant = <<>> THEN 0 ELSE y.sign
    IN  IF sx # sy THEN (IF sx < sy THEN 0 - 1 ELSE 1)
        ELSE IF sx = 0 THEN 0
        ELSE IF x.exp # y.exp THEN (IF x.exp < y.exp THEN 0 - sx ELSE sx)
        ELSE sx * BigCmp(x.mant, y.mant)

\* Math.min and Math.max of two numbers
MathMin(x, y) ==
    IF isNaN(x) \/ isNaN(y) THEN NaN
    ELSE IF x.kind = "Infinity" THEN (IF x.sign < 0 THEN x ELSE y)
    ELSE IF y.kind = "Infinity" THEN (IF y.sign < 0 THEN y ELSE x)
    ELSE IF CmpNum(x, y) <= 0 THEN x ELSE y

MathMax(x, y) ==
    IF isNaN(x) \/ isNaN(y) THEN NaN
    ELSE IF x.kind = "Infinity" THEN (IF x.sign > 0 THEN x ELSE y)
    ELSE IF y.kind = "Infinity" THEN (IF y.sign > 0 THEN y ELSE x)
    ELSE IF CmpNum(x, y) >= 0 THEN x ELSE y

\* the binary64 number nearest to sign * n * 2^e, for a natural number n > 0
\* of any size
Normal(sign, n, e) ==
    IF BigBitLen(n) > MantBits THEN RoundBig(sign, n, e)
    ELSE [kind |-> "finite", sign |-> sign,
          mant |-> BigShl(n, MantBits - BigBitLen(n)),
          exp  |-> e - (MantBits - BigBitLen(n))]

\* x - y for finite x and y
Sub(x, y) ==
    LET e  == IF x.exp < y.exp THEN x.exp ELSE y.exp
        a  == BigShl(x.mant, x.exp - e)
        b  == BigShl(y.mant, y.exp - e)
        sa == IF x.mant = <<>> THEN 0 ELSE x.sign
        sb == IF y.mant = <<>> THEN 0 ELSE y.sign
        c  == BigCmp(a, b)
    IN  IF sb = 0 THEN x
        ELSE IF sa = 0 THEN [y EXCEPT !.sign = 0 - y.sign]
        ELSE IF sa # sb THEN Normal(sa, BigAdd(a, b), e)
        ELSE IF c = 0 THEN Zero(1)
        ELSE IF c > 0 THEN Normal(sa, BigSub(a, b), e)
        ELSE Normal(0 - sa, BigSub(b, a), e)

(***************************************************************************)
(* Strings                                                                 *)
(***************************************************************************)
Digits == <<"0", "1", "2", "3", "4", "5", "6", "7", "8", "9">>

IsDigit(c) == \E i \in 1..10 : Digits[i] = c

DigitVal(c) == (CHOOSE i \in 1..10 : Digits[i] = c) - 1

IsWhite(c) == c = " "

Drop(s, k) == SubSeq(s, k + 1, Len(s))

StartsWith(s, p) == Len(s) >= Len(p) /\ SubSeq(s, 1, Len(p)) = p

RECURSIVE TrimStart(_)
TrimStart(s) ==
    IF s # <<>> /\ IsWhite(s[1]) THEN TrimStart(Tail(s)) ELSE s

RECURSIVE TrimEnd(_)
TrimEnd(s) ==
    IF s # <<>> /\ IsWhite(s[Len(s)]) THEN TrimEnd(SubSeq(s, 1, Len(s) - 1)) ELSE s

\* String.prototype.trim
trim(s) == TrimEnd(TrimStart(s))

\* length of the longest prefix of s made of decimal digits
RECURSIVE DigitRun(_)
DigitRun(s) ==
    IF s # <<>> /\ IsDigit(s[1]) THEN 1 + DigitRun(Tail(s)) ELSE 0

\* value of a sequence of decimal digits
RECURSIVE DigitsValue(_)
DigitsValue(s) ==
    IF s = <<>> THEN 0
    ELSE 10 * DigitsValue(SubSeq(s, 1, Len(s) - 1)) + DigitVal(s[Len(s)])

\* decimal digits of a natural number
RECURSIVE NatToText(_)
NatToText(n) ==
    IF n < 10 THEN <<Digits[n + 1]>>
    ELSE Append(NatToText(n \div 10), Digits[(n % 10) + 1])

InfinityText == <<"I", "n", "f", "i", "n", "i", "t", "y">>

\* the exponent (an integer) of the longest ExponentPart that s starts with, 0 when there is none
Exponent(s) ==
    IF s = <<>> \/ s[1] \notin {"e", "E"} THEN 0
    ELSE LET r  == Tail(s)
             sg == IF r # <<>> /\ r[1] \in {"+", "-"} THEN 1 ELSE 0
             d  == Drop(r, sg)
             k  == DigitRun(d)
         IN  IF k = 0 THEN 0
             ELSE IF sg = 1 /\ r[1] = "-"
                  THEN 0 - DigitsValue(SubSeq(d, 1, k))
                  ELSE DigitsValue(SubSeq(d, 1, k))

\* the mathematical value of the longest prefix of the text, leading white
\* space skipped, that is a StrDecimalLiteral: num / den exactly, or Infinity
\* with the sign in num, or NaN when there is no such prefix
StrDecimalValue(s) ==
    LET t  == TrimStart(s)
        sg == IF t # <<>> /\ t[1] \in {"+", "-"} THEN 1 ELSE 0
        neg == sg = 1 /\ t[1] = "-"
        u  == Drop(t, sg)
        ni == DigitRun(u)
        afterInt == Drop(u, ni)
        dot == afterInt # <<>> /\ afterInt[1] = "."
        nf == IF dot THEN DigitRun(Tail(afterInt)) ELSE 0
        fracText == IF dot THEN SubSeq(afterInt, 2, nf + 1) ELSE <<>>
        rest == IF dot /\ ni + nf > 0 THEN Drop(afterInt, nf + 1) ELSE afterInt
        ex == Exponent(rest)
        mant == DigitsValue(SubSeq(u, 1, ni) \o fracText)
        smant == IF neg THEN 0 - mant ELSE mant
    IN  IF StartsWith(u, InfinityText)
        THEN [kind |-> "Infinity", neg |-> neg, num |-> IF neg THEN 0 - 1 ELSE 1, den |-> 1]
        ELSE IF ni + nf = 0 THEN [kind |-> "NaN", neg |-> FALSE, num |-> 0, den |-> 1]
        ELSE IF ex >= nf
        THEN [kind |-> "finite", neg |-> neg, num |-> smant * Pow10(ex - nf), den |-> 1]
        ELSE [kind |-> "finite", neg |-> neg, num |-> smant, den |-> Pow10(nf - ex)]

\* the number nearest to a value v of StrDecimalValue
NumberOf(v) ==
    CASE v.kind = "NaN" -> NaN
      [] v.kind = "Infinity" -> Infinity(v.num)
      [] v.num = 0 -> Zero(IF v.neg THEN 0 - 1 ELSE 1)
      [] OTHER -> Finite(v.num, v.den)

\* Number.parseFloat
parseFloat(s) == NumberOf(StrDecimalValue(s))

\* Number.prototype.toFixed(1) of a finite number below 10^21: the n for which
\* n / 10 is nearest to |x|, the larger one when two are equally near, written
\* with one fraction digit
toFixed1(x) ==
    LET twenty == BigMulSmall(x.mant, 20)
        n == BigToInt(IF x.exp >= 0 THEN BigShl(BigMulSmall(x.mant, 10), x.exp)
                      ELSE BigShr(BigAdd(twenty, BigShl(<<1>>, 0 - x.exp)),
                                  1 - x.exp))
        body == NatToText(n \div 10) \o <<".">> \o NatToText(n % 10)
    IN  IF x.sign < 0 /\ x.mant # <<>> THEN <<"-">> \o body ELSE body

(***************************************************************************)
(* Inputs                                                                  *)
(***************************************************************************)
\* texts the height input delivers to onChange: the empty text (also what a
\* number input reports for text that is not a number) and decimal literals
HeightTexts ==
    { <<>>,
      <<"-", "5">>, <<"0">>,
      <<"4", "9">>, <<"5", "0">>, <<"8", "0">>,
      <<"1", "6", "0">>, <<"1", "7", "0">>,
      <<"2", "5", "0">>, <<"2", "5", "1">> }

\* texts the weight input delivers to onChange
WeightTexts ==
    { <<>>,
      <<"-", "5">>, <<"0">>,
      <<"1", "9">>, <<"2", "0">>,
      <<"5", "3", ".", "5">>, <<"6", "3", ".", "9">>, <<"6", "4">>,
      <<"7", "0">>,
      <<"5", "0", "0">>, <<"5", "0", "1">> }

TextsOf(field) == IF field = "height" THEN HeightTexts ELSE WeightTexts

InputTexts == HeightTexts \cup WeightTexts

\* characters of the texts handed to the validator on its own
Alphabet == {"0", "1", "2", "4", "5", "9", ".", "-", " ", "a"}

RECURSIVE TextsOfLen(_)
TextsOfLen(k) ==
    IF k = 0 THEN { <<>> }
    ELSE { Append(t, c) : t \in TextsOfLen(k - 1), c \in Alphabet }

\* longer texts of interest to the validator
LongTexts ==
    { <<"1", "2", "a", "b", "c">>, <<"1", "7", "0", "c", "m">>,
      InfinityText, <<"-">> \o InfinityText, <<"N", "a", "N">>,
      <<" ", " ", " ", " ">>, <<"4", "9", ".", "9", "9">>,
      <<"2", "5", "0", ".", "1">>, <<"5", "0", "0", ".", "5">>,
      <<"1", "e", "2">>, <<"5", "e", "-", "1">>, <<"7", "1", ".", "8", "2", "5">>,
      <<"1", "9", ".", "9", "9">> }

ProbeTexts ==
    UNION { TextsOfLen(k) : k \in 0..MaxLen } \cup InputTexts \cup LongTexts

(***************************************************************************)
(* The component                                                           *)
(***************************************************************************)
NoErrors == [height |-> Undefined, weight |-> Undefined, general |-> Undefined]

\* `${field.charAt(0).toUpperCase() + field.slice(1)} is required`
RequiredMessage(field) ==
    IF field = "height" THEN "Height is required" ELSE "Weight is required"

\* `Please enter a valid ${field}`
ValidMessage(field) ==
    IF field = "height" THEN "Please enter a valid height"
    ELSE "Please enter a valid weight"

TooLowMessage(field) ==
    IF field = "height" THEN "Height seems too low (min 50cm)"
    ELSE "Weight seems too low (min 20kg)"

TooHighMessage(field) ==
    IF field = "height" THEN "Height seems too high (max 250cm)"
    ELSE "Weight seems too high (max 500kg)"

MinOf(field) == IF field = "height" THEN 50 ELSE 20

MaxOf(field) == IF field = "height" THEN 250 ELSE 500

\* validateField that checks the bounds before the sign
validateField_boundsFirst(field, value) ==
    LET numValue == parseFloat(value)
    IN  IF trim(value) = <<>> THEN RequiredMessage(field)
        ELSE IF Less(numValue, MinOf(field)) THEN TooLowMessage(field)
        ELSE IF Greater(numValue, MaxOf(field)) THEN TooHighMessage(field)
        ELSE IF isNaN(numValue) \/ LessEq(numValue, 0) THEN ValidMessage(field)
        ELSE Undefined

\* validateField that bounds the height only
validateField_heightOnly(field, value) ==
    LET numValue == parseFloat(value)
    IN  IF trim(value) = <<>> THEN RequiredMessage(field)
        ELSE IF isNaN(numValue) \/ LessEq(numValue, 0) THEN ValidMessage(field)
        ELSE IF field = "height" /\ Less(numValue, 50) THEN TooLowMessage(field)
        ELSE IF field = "height" /\ Greater(numValue, 250) THEN TooHighMessage(field)
        ELSE Undefined

\* validateField without the tests that reject small values
validateField_upperOnly(field, value) ==
    LET numValue == parseFloat(value)
    IN  IF trim(value) = <<>> THEN RequiredMessage(field)
        ELSE IF isNaN(numValue) THEN ValidMessage(field)
        ELSE IF Greater(numValue, MaxOf(field)) THEN TooHighMessage(field)
        ELSE Undefined

\* validateField whose bounds exclude the endpoints
validateField_exclusive(field, value) ==
    LET numValue == parseFloat(value)
    IN  IF trim(value) = <<>> THEN RequiredMessage(field)
        ELSE IF isNaN(numValue) \/ LessEq(numValue, 0) THEN ValidMessage(field)
        ELSE IF LessEq(numValue, MinOf(field)) THEN TooLowMessage(field)
        ELSE IF ~Less(numValue, MaxOf(field)) THEN TooHighMessage(field)
        ELSE Undefined

validateField(field, value) ==
    LET numValue == parseFloat(value)
    IN  IF trim(value) = <<>> THEN RequiredMessage(field)
        ELSE IF isNaN(numValue) \/ LessEq(numValue, 0) THEN ValidMessage(field)
        ELSE IF Less(numValue, MinOf(field)) THEN TooLowMessage(field)
        ELSE IF Greater(numValue, MaxOf(field)) THEN TooHighMessage(field)
        ELSE Undefined

\* bmiValueOf with the height squared left out
bmiValueOf_noSquare(heightText, weightText) ==
    LET heightValue == parseFloat(heightText)
        weightValue == parseFloat(weightText)
        heightInMeters == DivInt(heightValue, 100)
    IN  Div(weightValue, heightInMeters)

\* weightValue / (heightInMeters * heightInMeters)
bmiValueOf(heightText, weightText) ==
    LET heightValue == parseFloat(heightText)
        weightValue == parseFloat(weightText)
        heightInMeters == DivInt(heightValue, 100)
    IN  Div(weightValue, Mul(heightInMeters, heightInMeters))

\* Number.parseFloat(bmiValue.toFixed(1))
roundedBmi(bmiValue) == parseFloat(toFixed1(bmiValue))

categoryOf(bmiValue) ==
    IF LessRat(bmiValue, 185, 10) THEN "Underweight"
    ELSE IF Less(bmiValue, 25) THEN "Normal weight"
    ELSE IF Less(bmiValue, 30) THEN "Overweight"
    ELSE "Obese"

\* getBmiScalePosition with the clamp to [10, 40] left out
scalePositionOf_unclamped(score) ==
    IF score = Null THEN Zero(1)
    ELSE Mul(DivInt(Sub(score, Finite(10, 1)), 30), Finite(100, 1))

\* getBmiScalePosition for a stored score
scalePositionOf(score) ==
    LET clampedBmi == MathMax(Finite(10, 1), MathMin(score, Finite(40, 1)))
    IN  IF score = Null THEN Zero(1)
        ELSE Mul(DivInt(Sub(clampedBmi, Finite(10, 1)), 30), Finite(100, 1))

\* the left offset, in percent, of the indicator that the render draws
getBmiScalePosition == scalePositionOf(bmi)

Init ==
    /\ height = <<>>
    /\ weight = <<>>
    /\ bmi = Null
    /\ category = ""
    /\ errors = NoErrors
    /\ animateResult = FALSE
    /\ submitted = FALSE
    /\ timer = 0
    /\ event = [kind |-> "mount", field |-> "none"]
    /\ probe = [field |-> "none", value |-> <<>>, result |-> "idle"]

\* handleInputChange that validates the text held before the edit
handleInputChange_stale(field, value) ==
    /\ height' = IF field = "height" THEN value ELSE height
    /\ weight' = IF field = "height" THEN weight ELSE value
    /\ errors' = IF submitted
                 THEN [errors EXCEPT ![field] = validateField(field,
                            IF field = "height" THEN height ELSE weight)]
                 ELSE errors
    /\ event' = [kind |-> "change", field |-> field]
    /\ UNCHANGED <<bmi, category, animateResult, submitted, timer, probe>>

\* handleInputChange that validates whether or not the form was submitted
handleInputChange_always(field, value) ==
    /\ height' = IF field = "height" THEN value ELSE height
    /\ weight' = IF field = "height" THEN weight ELSE value
    /\ errors' = [errors EXCEPT ![field] = validateField(field, value)]
    /\ event' = [kind |-> "change", field |-> field]
    /\ UNCHANGED <<bmi, category, animateResult, submitted, timer, probe>>

\* handleInputChange that stores only the edited field's error
handleInputChange_noSpread(field, value) ==
    /\ height' = IF field = "height" THEN value ELSE height
    /\ weight' = IF field = "height" THEN weight ELSE value
    /\ errors' = IF submitted
                 THEN [NoErrors EXCEPT ![field] = validateField(field, value)]
                 ELSE errors
    /\ event' = [kind |-> "change", field |-> field]
    /\ UNCHANGED <<bmi, category, animateResult, submitted, timer, probe>>

handleInputChange(field, value) ==
    /\ height' = IF field = "height" THEN value ELSE height
    /\ weight' = IF field = "height" THEN weight ELSE value
    /\ errors' = IF submitted
                 THEN [errors EXCEPT ![field] = validateField(field, value)]
                 ELSE errors
    /\ event' = [kind |-> "change", field |-> field]
    /\ UNCHANGED <<bmi, category, animateResult, submitted, timer, probe>>

\* the effect on [bmi] without its cleanup: the timer of the previous run
\* stays pending
bmiEffect_noCleanup(newBmi) ==
    IF newBmi # bmi /\ newBmi # Null
    THEN animateResult' = TRUE /\ timer' = timer + 1
    ELSE UNCHANGED <<animateResult, timer>>

\* the effect on [bmi]: it runs when the stored bmi changed; its cleanup
\* clears the timer of the previous run, and for a non-null bmi it raises
\* the highlight and starts a timer.  timer is the number of pending timers.
bmiEffect(newBmi) ==
    IF newBmi # bmi /\ newBmi # Null
    THEN animateResult' = TRUE /\ timer' = (IF timer > 0 THEN timer - 1 ELSE 0) + 1
    ELSE UNCHANGED <<animateResult, timer>>

\* setSubmitted(true) placed after the early return
submittedAfter_onSuccess(heightError, weightError) ==
    heightError = Undefined /\ weightError = Undefined

\* setSubmitted(true)
submittedAfter(heightError, weightError) == TRUE

GeneralMessage == "An error occurred during calculation. Please check your inputs."

\* the errors stored by a submission
errorsAfter(heightError, weightError, bmiValue) ==
    LET checked == [height |-> heightError, weight |-> weightError,
                    general |-> Undefined]
    IN  IF heightError # Undefined \/ weightError # Undefined THEN checked
        ELSE IF ~isFinite(bmiValue) \/ isNaN(bmiValue)
        THEN [checked EXCEPT !.general = GeneralMessage]
        ELSE checked

\* a submission that resets the result when validation fails
resultAfter_reset(heightError, weightError, bmiValue, prev) ==
    IF heightError # Undefined \/ weightError # Undefined
    THEN [bmi |-> Null, category |-> ""]
    ELSE IF ~isFinite(bmiValue) \/ isNaN(bmiValue) THEN prev
    ELSE [bmi |-> roundedBmi(bmiValue), category |-> categoryOf(bmiValue)]

\* a submission that stores the new score but keeps an earlier category
resultAfter_keepCategory(heightError, weightError, bmiValue, prev) ==
    IF heightError # Undefined \/ weightError # Undefined THEN prev
    ELSE IF ~isFinite(bmiValue) \/ isNaN(bmiValue) THEN prev
    ELSE [bmi |-> roundedBmi(bmiValue),
          category |-> IF prev.bmi # Null THEN prev.category
                       ELSE categoryOf(bmiValue)]

\* a submission that computes only when there is no result yet
resultAfter_once(heightError, weightError, bmiValue, prev) ==
    IF heightError # Undefined \/ weightError # Undefined THEN prev
    ELSE IF ~isFinite(bmiValue) \/ isNaN(bmiValue) THEN prev
    ELSE IF prev.bmi # Null THEN prev
    ELSE [bmi |-> roundedBmi(bmiValue), category |-> categoryOf(bmiValue)]

\* the result (bmi, category) stored by a submission; prev is the one before it
resultAfter(heightError, weightError, bmiValue, prev) ==
    IF heightError # Undefined \/ weightError # Undefined THEN prev
    ELSE IF ~isFinite(bmiValue) \/ isNaN(bmiValue) THEN prev
    ELSE [bmi |-> roundedBmi(bmiValue), category |-> categoryOf(bmiValue)]

\* the two verdicts and bmiValue are each computed once, bmiValue only when
\* both fields are valid
calculateBMI ==
    \E heightError \in { validateField("height", height) } :
    \E weightError \in { validateField("weight", weight) } :
    \E bmiValue \in { IF heightError = Undefined /\ weightError = Undefined
                      THEN bmiValueOf(height, weight) ELSE NaN } :
    \E result \in { resultAfter(heightError, weightError, bmiValue,
                                [bmi |-> bmi, category |-> category]) } :
        /\ submitted' = submittedAfter(heightError, weightError)
        /\ errors' = errorsAfter(heightError, weightError, bmiValue)
        /\ bmi' = result.bmi
        /\ category' = result.category
        /\ bmiEffect(result.bmi)
        /\ event' = [kind |-> "submit", field |-> "none"]
        /\ UNCHANGED <<height, weight, probe>>

\* setTimeout(() => setAnimateResult(false), 500)
timerFires ==
    /\ timer > 0
    /\ animateResult' = FALSE
    /\ timer' = timer - 1
    /\ event' = [kind |-> "timer", field |-> "none"]
    /\ UNCHANGED <<height, weight, bmi, category, errors, submitted, probe>>

Next ==
    \/ \E field \in Fields : \E value \in TextsOf(field) :
            handleInputChange(field, value)
    \/ calculateBMI
    \/ timerFires

Spec == Init /\ [][Next]_vars

(***************************************************************************)
(* The widget with a pending timer that is eventually run: a timeout that  *)
(* is not cleared runs its callback once its delay has passed.  The edits  *)
(* draw from a few texts, enough for four different results.               *)
(***************************************************************************)
LiveTexts(field) ==
    IF field = "height"
    THEN {<<>>, <<"1", "6", "0">>, <<"1", "7", "0">>}
    ELSE {<<>>, <<"6", "4">>, <<"7", "0">>}

NextLive ==
    \/ \E field \in Fields : \E value \in LiveTexts(field) :
            handleInputChange(field, value)
    \/ calculateBMI
    \/ timerFires

SpecLive == Init /\ [][NextLive]_vars /\ WF_vars(timerFires)

(***************************************************************************)
(* The validator on its own                                                *)
(***************************************************************************)
InitValidate ==
    /\ height = <<>>
    /\ weight = <<>>
    /\ bmi = Null
    /\ category = ""
    /\ errors = NoErrors
    /\ animateResult = FALSE
    /\ submitted = FALSE
    /\ timer = 0
    /\ event = [kind |-> "mount", field |-> "none"]
    /\ probe \in [field : Fields, value : ProbeTexts, result : {"pending"}]

applyValidate ==
    /\ probe.result = "pending"
    /\ probe' = [probe EXCEPT !.result = validateField(probe.field, probe.value)]
    /\ UNCHANGED widgetVars

NextValidate == applyValidate

SpecValidate == InitValidate /\ [][NextValidate]_vars

(***************************************************************************)
(* The scale position: the widget as in Spec, and beside it the function   *)
(* on its own, applied to one stored score.  A stored score is null or a   *)
(* number of tenths: here -1 for null, 0 .. MaxScore, and the largest      *)
(* score that the bounds of the validator allow, 500 / 0.5^2 = 2000.       *)
(***************************************************************************)
MaxScore == 450

LargestScore == 20000

ScoreOf(tenths) ==
    IF tenths < 0 THEN Null
    ELSE IF tenths = 0 THEN Zero(1)
    ELSE Finite(tenths, 10)

Pending == [kind |-> "pending", sign |-> 1, mant |-> <<>>, exp |-> 0]

InitScale ==
    /\ height = <<>>
    /\ weight = <<>>
    /\ bmi = Null
    /\ category = ""
    /\ errors = NoErrors
    /\ animateResult = FALSE
    /\ submitted = FALSE
    /\ timer = 0
    /\ event = [kind |-> "mount", field |-> "none"]
    /\ probe \in {[field |-> "none", value |-> <<>>, result |-> "idle"]}
                 \cup [field : {"scale"},
                       value : (0 - 1) .. MaxScore \cup {LargestScore},
                       result : {Pending}]

applyScale ==
    /\ probe.field = "scale"
    /\ probe.result = Pending
    /\ probe' = [probe EXCEPT !.result = scalePositionOf(ScoreOf(probe.value))]
    /\ UNCHANGED widgetVars

widgetStep ==
    /\ probe.field = "none"
    /\ Next

NextScale == applyScale \/ widgetStep

SpecScale == InitScale /\ [][NextScale]_vars

(***************************************************************************)
(* Properties                                                              *)
(***************************************************************************)
Valid(field, value) == validateField(field, value) = Undefined

IsSubmit(e) == e.kind = "submit"

IsChange(e) == e.kind = "change"

\* C1: a submission in which the height text or the weight text fails
\* validation leaves the stored score and category as they were.
C1_StaleResultKept ==
    [][ (IsSubmit(event') /\ ~(Valid("height", height) /\ Valid("weight", weight)))
            => (bmi' = bmi /\ category' = category) ]_vars

\* a failing submission has just been made while a result was stored, and the
\* weight error is set
C1_Witness ==
    /\ IsSubmit(event)
    /\ bmi # Null
    /\ category = "Normal weight"
    /\ weight = <<"-", "5">>
    /\ errors.weight = "Please enter a valid weight"

\* C2: no result exists at creation, and after every step a result exists
\* exactly if one existed before or the step is a submission with both fields
\* valid; so a result is present iff a successful submission has occurred, and
\* once present it is never absent again.
C2_ResultIffSucceeded ==
    /\ bmi = Null
    /\ [][ (bmi' # Null) <=>
              \/ bmi # Null
              \/ IsSubmit(event') /\ Valid("height", height) /\ Valid("weight", weight)
       ]_vars

\* a failing submission has just been made and the earlier result is still there
C2_Witness ==
    /\ bmi # Null
    /\ IsSubmit(event)
    /\ errors.height # Undefined

\* C3: after a submission in which both fields validate, the stored result is
\* the one computed from the current texts and no error is stored.
C3_ValidSubmitReplaces ==
    [][ (IsSubmit(event') /\ Valid("height", height) /\ Valid("weight", weight))
            => /\ bmi' = roundedBmi(bmiValueOf(height, weight))
               /\ category' = categoryOf(bmiValueOf(height, weight))
               /\ errors' = NoErrors ]_vars

\* a valid submission of (250, 70) has stored the result computed from it
C3_Witness ==
    /\ IsSubmit(event)
    /\ height = <<"2", "5", "0">>
    /\ weight = <<"7", "0">>
    /\ bmi = Finite(112, 10)
    /\ category = "Underweight"
    /\ errors = NoErrors

\* C4: the form starts unsubmitted; every submission sets the flag, whatever
\* the outcome of validation; nothing else sets it and nothing resets it.
C4_SubmittedIrreversible ==
    /\ submitted = FALSE
    /\ [][ /\ IsSubmit(event') => submitted'
           /\ submitted => submitted'
           /\ ~IsSubmit(event') => submitted' = submitted ]_vars

\* the flag is still set when the timer fires after edits to invalid text
C4_Witness ==
    /\ submitted
    /\ event.kind = "timer"
    /\ errors.height # Undefined

\* an error of the field is shown under its input
Surfaced(field) == submitted /\ errors[field] # Undefined

\* C5: before the first submission an edit changes only the text of the
\* edited field, and no error is shown.
C5_PristineEditTextOnly ==
    [][ (~submitted /\ IsChange(event'))
            => /\ errors' = errors
               /\ bmi' = bmi
               /\ category' = category
               /\ submitted' = submitted
               /\ event'.field = "height" => weight' = weight
               /\ event'.field = "weight" => height' = height
               /\ ~Surfaced("height")' /\ ~Surfaced("weight")' ]_vars

\* invalid text has been entered in a field before any submission
C5_Witness ==
    /\ ~submitted
    /\ IsChange(event)
    /\ event.field = "weight"
    /\ weight = <<"-", "5">>
    /\ height = <<"2", "5", "1">>

\* C6: after the first submission an edit of a field stores the validator's
\* verdict on the new text as the error of that field and changes neither the
\* other errors nor the result nor the flag.
C6_SubmittedEditRevalidates ==
    [][ (submitted /\ IsChange(event'))
            => LET f == event'.field
                   g == IF f = "height" THEN "weight" ELSE "height"
                   text == IF f = "height" THEN height' ELSE weight'
               IN  /\ errors'[f] = validateField(f, text)
                   /\ errors'[g] = errors[g]
                   /\ errors'.general = errors.general
                   /\ bmi' = bmi
                   /\ category' = category
                   /\ submitted' = submitted ]_vars

\* an edit has cleared the error of one field while the other keeps its own
C6_Witness ==
    /\ submitted
    /\ IsChange(event)
    /\ event.field = "height"
    /\ errors.height = Undefined
    /\ errors.weight = "Weight seems too high (max 500kg)"

IsBlank(text) == \A i \in 1..Len(text) : text[i] = " "

probed == probe.result \notin {"idle", "pending"}

\* C7: the validator's verdict is the first that applies of: blank text is
\* "required"; text without a number at its start, or with one that is <= 0,
\* is "valid"; a number below the minimum is "too low"; above the maximum
\* "too high"; anything else has no error.
C7_RulesInOrder ==
    probed =>
        LET f == probe.field
            x == parseFloat(probe.value)
            r == probe.result
        IN  /\ IsBlank(probe.value) => r = RequiredMessage(f)
            /\ (~IsBlank(probe.value) /\ (isNaN(x) \/ LessEq(x, 0)))
                   => r = ValidMessage(f)
            /\ (Greater(x, 0) /\ Less(x, MinOf(f))) => r = TooLowMessage(f)
            /\ Greater(x, MaxOf(f)) => r = TooHighMessage(f)
            /\ (~Less(x, MinOf(f)) /\ ~Greater(x, MaxOf(f)) /\ ~isNaN(x))
                   => r = Undefined

\* the validator has answered "valid", not "too low", for -5
C7_Witness ==
    /\ probe.value = <<"-", "5">>
    /\ probe.field = "height"
    /\ probe.result = "Please enter a valid height"

\* number of characters of the longest ExponentPart that s starts with
ExponentLen(s) ==
    IF s = <<>> \/ s[1] \notin {"e", "E"} THEN 0
    ELSE LET sg == IF Len(s) >= 2 /\ s[2] \in {"+", "-"} THEN 1 ELSE 0
             k  == DigitRun(Drop(s, 1 + sg))
         IN  IF k = 0 THEN 0 ELSE 1 + sg + k

\* the whole text, white space at its ends apart, is one finite decimal literal
IsNumericText(text) ==
    LET t  == trim(text)
        sg == IF t # <<>> /\ t[1] \in {"+", "-"} THEN 1 ELSE 0
        u  == Drop(t, sg)
        ni == DigitRun(u)
        dot == Len(u) > ni /\ u[ni + 1] = "."
        nf == IF dot THEN DigitRun(Drop(u, ni + 1)) ELSE 0
        body == ni + (IF dot THEN 1 ELSE 0) + nf
    IN  /\ ni + nf > 0
        /\ body + ExponentLen(Drop(u, body)) = Len(u)

\* C8: for text that is empty or not numeric the validator answers "required"
\* or "valid", never a bound error (and never no error).
C8_NonNumericRejected ==
    (probed /\ ~IsNumericText(probe.value))
        => probe.result \in {RequiredMessage(probe.field), ValidMessage(probe.field)}

\* C9 as stated: every number below the minimum gets the "too low" error and
\* every number above the maximum the "too high" error.
C9_Original ==
    probed =>
        LET f == probe.field
            x == parseFloat(probe.value)
        IN  /\ Less(x, MinOf(f)) => probe.result = TooLowMessage(f)
            /\ Greater(x, MaxOf(f)) => probe.result = TooHighMessage(f)

\* C9 amended: every number above 0 and below the minimum gets the "too low"
\* error, every number above the maximum the "too high" error, and a number
\* that is 0 or less gets the "valid" error.
C9_BoundErrors ==
    probed =>
        LET f == probe.field
            x == parseFloat(probe.value)
        IN  /\ (Greater(x, 0) /\ Less(x, MinOf(f))) => probe.result = TooLowMessage(f)
            /\ Greater(x, MaxOf(f)) => probe.result = TooHighMessage(f)
            /\ LessEq(x, 0) => probe.result = ValidMessage(f)

\* the validator has answered "too low" for a weight between 0 and 20
C9_Witness ==
    /\ probe.field = "weight"
    /\ probe.value = <<"1", "9">>
    /\ probe.result = "Weight seems too low (min 20kg)"

InRange(x, lo, hi) == isFinite(x) /\ ~Less(x, lo) /\ ~Greater(x, hi)

\* C10: after a submission of a height in [50, 250] and a weight in [20, 500],
\* endpoints included, neither field has an error and the result computed from
\* the pair is stored.
C10_InRangeComputes ==
    ( /\ IsSubmit(event)
      /\ InRange(parseFloat(height), 50, 250)
      /\ InRange(parseFloat(weight), 20, 500) )
        => /\ errors.height = Undefined
           /\ errors.weight = Undefined
           /\ bmi # Null
           /\ bmi = roundedBmi(bmiValueOf(height, weight))

\* the smallest height and the largest weight have been submitted
C10_Witness ==
    /\ IsSubmit(event)
    /\ height = <<"5", "0">>
    /\ weight = <<"5", "0", "0">>
    /\ bmi = Finite(2000, 1)
    /\ category = "Obese"

(***************************************************************************)
(* The score as a rational number, without the rounding of the arithmetic  *)
(***************************************************************************)
\* weight / (height / 100)^2 as num / den, for texts of positive numbers
ExactScore(heightText, weightText) ==
    LET h == StrDecimalValue(heightText)
        w == StrDecimalValue(weightText)
    IN  [num |-> w.num * h.den * h.den * 10000, den |-> w.den * h.num * h.num]

\* the band of a positive rational score
ExactBand(r) ==
    IF 10 * r.num < 185 * r.den THEN "Underweight"
    ELSE IF r.num < 25 * r.den THEN "Normal weight"
    ELSE IF r.num < 30 * r.den THEN "Overweight"
    ELSE "Obese"

\* the number of tenths nearest to a positive rational score, a half rounded
\* away from zero
ExactTenths(r) == (20 * r.num + r.den) \div (2 * r.den)

ValidPair == Valid("height", height) /\ Valid("weight", weight)

\* C11: after a submission of a valid pair the stored category is the band of
\* weight / (height / 100)^2, the score before any rounding: Underweight below
\* 18.5, Normal weight in [18.5, 25), Overweight in [25, 30), Obese from 30.
C11_BandOfUnroundedScore ==
    (IsSubmit(event) /\ ValidPair)
        => category = ExactBand(ExactScore(height, weight))

\* C12: after a submission of a valid pair the stored score is
\* weight / (height / 100)^2 rounded to one decimal, a half rounded away from
\* zero.
C12_RoundHalfAway ==
    (IsSubmit(event) /\ ValidPair)
        => bmi = ScoreOf(ExactTenths(ExactScore(height, weight)))

SubmittedTexts(heightText, weightText) ==
    IsSubmit(event) /\ height = heightText /\ weight = weightText

\* C13 as stated: submitting height 170 and weight 53.5 stores the score 17.5
\* with the category Underweight.
C13_Original ==
    SubmittedTexts(<<"1", "7", "0">>, <<"5", "3", ".", "5">>)
        => (bmi = Finite(175, 10) /\ category = "Underweight")

\* C13 amended: submitting height 170 and weight 53.5 computes a score between
\* 18.51 and 18.52 and stores the score 18.5 with the category Normal weight.
C13_WorkedExample ==
    SubmittedTexts(<<"1", "7", "0">>, <<"5", "3", ".", "5">>)
        => /\ ~LessRat(bmiValueOf(height, weight), 1851, 100)
           /\ LessRat(bmiValueOf(height, weight), 1852, 100)
           /\ bmi = Finite(185, 10)
           /\ category = "Normal weight"

\* height 170 and weight 53.5 have been submitted and a result is displayed
C13_Witness ==
    /\ SubmittedTexts(<<"1", "7", "0">>, <<"5", "3", ".", "5">>)
    /\ errors = NoErrors
    /\ bmi # Null
    /\ animateResult

scaled == probe.field = "scale" /\ probe.result # Pending

InUnit(p) == isFinite(p) /\ CmpRat(p, 0, 1) >= 0 /\ CmpRat(p, 100, 1) <= 0

\* C14: the scale position is always within [0, 100]: it is 0 for a score of
\* 10 or less, 100 for a score of 40 or more, 50 for the score 25, between
\* them (score - 10) / 30 * 100 to within 0.001, and it never decreases as the
\* score grows; the position that the widget draws from its stored score is
\* within [0, 100] in every state.
C14_ScalePosition ==
    /\ InUnit(getBmiScalePosition)
    /\ scaled =>
        LET n == probe.value
            p == probe.result
        IN  /\ InUnit(p)
            /\ (0 <= n /\ n <= 100) => CmpRat(p, 0, 1) = 0
            /\ n >= 400 => p = Finite(100, 1)
            /\ n = 250 => p = Finite(50, 1)
            /\ (100 < n /\ n < 400) =>
                    /\ CmpRat(p, 1000 * (n - 100) - 3, 3000) > 0
                    /\ CmpRat(p, 1000 * (n - 100) + 3, 3000) < 0
            /\ (0 <= n /\ n < MaxScore) =>
                    CmpNum(p, scalePositionOf(ScoreOf(n + 1))) <= 0

\* the position of the score 25 has been computed: the middle of the scale
C14_Witness ==
    /\ scaled
    /\ probe.value = 250
    /\ probe.result = Finite(50, 1)

\* C15: the general (computation) error is absent in every state, and after
\* a submission of a valid pair the computed score is finite and a result is
\* stored.
C15_NoComputationError ==
    /\ errors.general = Undefined
    /\ (IsSubmit(event) /\ ValidPair)
            => /\ isFinite(bmiValueOf(height, weight))
               /\ bmi # Null
               /\ isFinite(bmi)
               /\ category # ""

\* the tallest height and the lightest weight have been submitted: the
\* smallest score, 3.2, is stored and there is no general error
C15_Witness ==
    /\ IsSubmit(event)
    /\ height = <<"2", "5", "0">>
    /\ weight = <<"2", "0">>
    /\ bmi = Finite(32, 10)
    /\ errors.general = Undefined

NoResult == [bmi |-> Null, category |-> ""]

\* C16: the result stored by a submission of a valid pair depends on the two
\* texts only: it is the result that a widget without any earlier result
\* stores for these texts, whatever the state before the submission, and
\* submitting the same texts again leaves it as it is.
C16_ResultDependsOnTextsOnly ==
    [][ (IsSubmit(event') /\ ValidPair)
            => LET fresh == resultAfter(Undefined, Undefined,
                                        bmiValueOf(height, weight), NoResult)
               IN  /\ bmi' = fresh.bmi
                   /\ category' = fresh.category
                   /\ IsSubmit(event) => (bmi' = bmi /\ category' = category) ]_vars

\* (160, 63.9) has been submitted while its score 25.0 was already stored and
\* the highlight of the earlier result had ended: the same result is stored
C16_Witness ==
    /\ SubmittedTexts(<<"1", "6", "0">>, <<"6", "3", ".", "9">>)
    /\ bmi = Finite(250, 10)
    /\ category = "Normal weight"
    /\ ~animateResult
    /\ timer = 0

\* C17: in every state after the first submission the stored error of each
\* field is the verdict of the validator on the text the field holds now.
C17_ErrorsMatchTexts ==
    submitted => /\ errors.height = validateField("height", height)
                 /\ errors.weight = validateField("weight", weight)

\* after the first submission the weight has been edited to a text above the
\* maximum while the height still holds a text below the minimum: each field
\* has its own error
C17_Witness ==
    /\ submitted
    /\ IsChange(event)
    /\ event.field = "weight"
    /\ height = <<"4", "9">>
    /\ weight = <<"5", "0", "1">>
    /\ errors.height = TooLowMessage("height")
    /\ errors.weight = TooHighMessage("weight")

\* C18: the score and the category are both absent or both present; a
\* submission of a valid pair stores the score and the category computed from
\* that one pair, and no other step changes either of them, so a stored score
\* and category always come from the most recent successful submission.
C18_ScoreAndCategoryTogether ==
    /\ bmi = Null /\ category = ""
    /\ [][ /\ (bmi' = Null) <=> (category' = "")
           /\ IF IsSubmit(event') /\ ValidPair
              THEN /\ bmi' = roundedBmi(bmiValueOf(height', weight'))
                   /\ category' = categoryOf(bmiValueOf(height', weight'))
              ELSE bmi' = bmi /\ category' = category ]_vars

\* the height has been emptied after (160, 63.9) was submitted: the score 25.0
\* and the category Normal weight of that submission are still stored
C18_Witness ==
    /\ IsChange(event)
    /\ height = <<>>
    /\ weight = <<"6", "3", ".", "9">>
    /\ bmi = Finite(250, 10)
    /\ category = "Normal weight"

\* C19: in every state before the first submission no error is stored and no
\* result exists; so a stored error or a result means the form was submitted.
C19_PristineIsClean ==
    ~submitted => (errors = NoErrors /\ bmi = Null /\ category = "")

\* before any submission both fields hold invalid texts, the height edited
\* last, and nothing is stored
C19_Witness ==
    /\ ~submitted
    /\ IsChange(event)
    /\ event.field = "height"
    /\ height = <<"0">>
    /\ weight = <<"5", "0", "1">>
    /\ errors = NoErrors

\* C20 as stated: the highlight is raised after each successful computation.
C20_Original ==
    [][ (IsSubmit(event') /\ ValidPair) => animateResult' ]_vars

\* C20 amended: a submission that changes the stored score raises the
\* highlight, clears the pending timer and starts a new one, and no other
\* handler touches the highlight or the timer; at most one timer is pending,
\* and one is pending whenever the highlight is raised; the timer's callback
\* lowers the highlight and changes nothing else; and with a pending timer
\* eventually running, a raised highlight is always eventually lowered.
C20_Highlight ==
    /\ [][ /\ (IsSubmit(event') /\ bmi' # bmi) => (animateResult' /\ timer' = 1)
           /\ (event'.kind # "timer" /\ bmi' = bmi)
                    => UNCHANGED <<animateResult, timer>>
           /\ timer' <= 1
           /\ animateResult' => timer' = 1
           /\ event'.kind = "timer"
                    => /\ ~animateResult'
                       /\ timer' = 0
                       /\ UNCHANGED <<height, weight, errors, bmi, category,
                                      submitted>> ]_vars
    /\ animateResult ~> ~animateResult

\* the timer has run after (160, 70) was submitted: the highlight is lowered,
\* no timer is pending and the result 27.3 is still stored
C20_Witness ==
    /\ event.kind = "timer"
    /\ height = <<"1", "6", "0">>
    /\ weight = <<"7", "0">>
    /\ bmi = Finite(273, 10)
    /\ category = "Overweight"
    /\ ~animateResult
    /\ timer = 0

====
